---- MODULE Spec2Model ----
(***************************************************************************)
(* Resume Analyzer Pro (src/main.py): PDF text extraction, the Groq        *)
(* completion call, the normalisation of the model's JSON reply and the    *)
(* Streamlit session that drives them on each form submission.             *)
(***************************************************************************)
EXTENDS Integers, Sequences, FiniteSets, TLC

VARIABLES pc, client, resume_text, job_description, analysis_result,
          analysis_requested, last_upload_name, uploaded_file,
          job_description_input, response_content, messages, stages,
          requests, rendered, prior_result

vars == <<pc, client, resume_text, job_description, analysis_result,
          analysis_requested, last_upload_name, uploaded_file,
          job_description_input, response_content, messages, stages,
          requests, rendered, prior_result>>

\* prior_result is a history variable: the result that was stored when the
\* form was last submitted.
session_state == <<resume_text, job_description, analysis_result,
                   analysis_requested, last_upload_name>>

(***************************************************************************)
(* Bounds of the model and constants of the program.                       *)
(***************************************************************************)
MaxPages == 2

MaxPageLen == 2

MaxWrap == 1

MIN_JD_LENGTH == 100

MIN_RESUME_LENGTH == 150

(***************************************************************************)
(* Text.  A Python str is a sequence of runs: a run of n characters that   *)
(* are not whitespace ("x"), one space or one newline.  None is a value of *)
(* its own.                                                                *)
(***************************************************************************)
Run(n) == [ch |-> "x", n |-> n]

SP == [ch |-> " ", n |-> 1]

NL == [ch |-> "\n", n |-> 1]

None == << [ch |-> "None", n |-> 0] >>

IsSpace(t) == t.ch \in {" ", "\n"}

RECURSIVE StrLen(_)
StrLen(s) == IF s = <<>> THEN 0 ELSE Head(s).n + StrLen(Tail(s))

Truthy(s) == s # None /\ s # <<>>

\* str.strip(): drop the whitespace at both ends.
RECURSIVE LStrip(_)
LStrip(s) ==
    IF s = <<>> THEN <<>>
    ELSE IF IsSpace(Head(s)) THEN LStrip(Tail(s)) ELSE s

RECURSIVE RStrip(_)
RStrip(s) ==
    IF s = <<>> THEN <<>>
    ELSE IF IsSpace(s[Len(s)]) THEN RStrip(SubSeq(s, 1, Len(s) - 1)) ELSE s

Strip(s) == RStrip(LStrip(s))

\* The length of the longest prefix of s that is whitespace only.
RECURSIVE SpaceRun(_)
SpaceRun(s) ==
    IF s = <<>> \/ ~IsSpace(Head(s)) THEN 0 ELSE 1 + SpaceRun(Tail(s))

\* re.sub(r'\n\s*\n', '\n\n', s): scanning from the left, a newline starts a
\* match when the whitespace that follows it holds another newline; the
\* greedy \s* takes the match up to the last newline of that whitespace.
RECURSIVE CollapseBlankLines(_)
CollapseBlankLines(s) ==
    IF s = <<>> THEN <<>>
    ELSE IF Head(s) # NL THEN <<Head(s)>> \o CollapseBlankLines(Tail(s))
    ELSE LET w == SpaceRun(s)
             ends == {j \in 2..w : s[j] = NL}
         IN  IF ends = {} THEN <<NL>> \o CollapseBlankLines(Tail(s))
             ELSE LET last == CHOOSE j \in ends : \A k \in ends : k <= j
                  IN  <<NL, NL>> \o CollapseBlankLines(SubSeq(s, last + 1, Len(s)))

(***************************************************************************)
(* PDF text extraction.  A PDF is what PyPDF2 makes of it: opening it      *)
(* succeeds, raises PdfReadError or raises something else; each page's     *)
(* extract_text() returns a str (possibly empty), or raises.               *)
(***************************************************************************)
Page(raises, text) == [raises |-> raises, text |-> text]

Pdf(open, pages) == [open |-> open, pages |-> pages]

\* Lines 60-68: the text of the pages that gave some, each followed by "\n".
RECURSIVE ConcatPages(_)
ConcatPages(pages) ==
    IF pages = <<>> THEN <<>>
    ELSE LET p == Head(pages)
         IN  (IF ~p.raises /\ Truthy(p.text) THEN p.text \o <<NL>> ELSE <<>>)
             \o ConcatPages(Tail(pages))

\* Line 74.
Cleaned(extracted_text) == Strip(CollapseBlankLines(extracted_text))

\* extract_text_from_pdf: the value returned and the messages put on the page.
extract_text_from_pdf(pdf_file_obj) ==
    IF pdf_file_obj.open = "PdfReadError"
    THEN [text |-> None, msgs |-> {"ExtractionError"}]
    ELSE IF pdf_file_obj.open = "Exception"
    THEN [text |-> None, msgs |-> {"ExtractionUnexpected"}]
    ELSE LET extracted_text == ConcatPages(pdf_file_obj.pages)
         IN  IF extracted_text = <<>>
             THEN [text |-> None, msgs |-> {"ExtractionEmpty"}]
             ELSE [text |-> Cleaned(extracted_text), msgs |-> {}]

(***************************************************************************)
(* JSON.  A value is a record of one shape: ty is its JSON type, n the     *)
(* number (a float is kept in tenths, a bool as 0 or 1), s the words of a  *)
(* string, l the strings of a list, o the members of an object in the      *)
(* order of the text, each [k |-> key, v |-> value] with the key the words *)
(* of its string.  A Python dict is the sequence of its members.           *)
(***************************************************************************)
Val(ty, n, s, l, o) == [ty |-> ty, n |-> n, s |-> s, l |-> l, o |-> o]

JInt(n) == Val("int", n, <<>>, <<>>, <<>>)

JBool(b) == Val("bool", IF b THEN 1 ELSE 0, <<>>, <<>>, <<>>)

JFloat(tenths) == Val("float", tenths, <<>>, <<>>, <<>>)

JStr(words) == Val("str", 0, words, <<>>, <<>>)

JNull == Val("null", 0, <<>>, <<>>, <<>>)

JList(items) == Val("list", 0, <<>>, items, <<>>)

JObj(members) == Val("obj", 0, <<>>, <<>>, members)

Member(k, v) == [k |-> k, v |-> v]

\* The dict that stands for "no dict": analyze_resume_groq's None.
NoResult == << Member(<<"None">>, JNull) >>

\* key in d
Has(d, k) == \E i \in 1..Len(d) : d[i].k = k

\* d[key]
Get(d, k) == d[CHOOSE i \in 1..Len(d) : d[i].k = k].v

\* d[key] = v
Put(d, k, v) ==
    IF Has(d, k)
    THEN [i \in 1..Len(d) |-> IF d[i].k = k THEN Member(k, v) ELSE d[i]]
    ELSE Append(d, Member(k, v))

(***************************************************************************)
(* The text of a reply is a sequence of tokens: the braces, the comma and  *)
(* the colon, a literal (a string, a number, true, false, null or a list   *)
(* of strings, with its value) and a word of prose.                        *)
(***************************************************************************)
Tok(c, v) == [c |-> c, v |-> v]

LB == Tok("{", JNull)

RB == Tok("}", JNull)

COMMA == Tok(",", JNull)

COLON == Tok(":", JNull)

Lit(v) == Tok("lit", v)

Word == Tok("word", JNull)

\* JsonMatch with a lazy pattern, r'\{.*?\}': up to the first "}".
JsonMatchMut(content) ==
    LET opens == {i \in 1..Len(content) : content[i] = LB /\
                     \E j \in (i + 1)..Len(content) : content[j] = RB}
    IN  IF opens = {} THEN <<>>
        ELSE LET first == CHOOSE i \in opens : \A k \in opens : i <= k
                 closes == {j \in (first + 1)..Len(content) : content[j] = RB}
                 close == CHOOSE j \in closes : \A k \in closes : j <= k
             IN  SubSeq(content, first, close)

\* re.search(r'\{.*\}', response_content, re.DOTALL): the leftmost "{" that
\* has a "}" after it, up to the last "}" (the greedy .* crosses newlines).
\* <<>> stands for no match.
JsonMatch(content) ==
    LET opens == {i \in 1..Len(content) : content[i] = LB /\
                     \E j \in (i + 1)..Len(content) : content[j] = RB}
    IN  IF opens = {} THEN <<>>
        ELSE LET first == CHOOSE i \in opens : \A k \in opens : i <= k
                 closes == {j \in (first + 1)..Len(content) : content[j] = RB}
                 last == CHOOSE j \in closes : \A k \in closes : k <= j
             IN  SubSeq(content, first, last)

\* json.loads on a text that starts with "{": a recursive descent over the
\* tokens.  Each parser returns [ok, v, next]: whether it read a value at
\* position i, the value, and the position after it.
Fail == [ok |-> FALSE, v |-> JNull, next |-> 0]

At(t, i) == IF i \in 1..Len(t) THEN t[i] ELSE Tok("eof", JNull)

RECURSIVE ParseValue(_, _)
RECURSIVE ParseMembers(_, _, _)
ParseObject(t, i) ==
    IF At(t, i) # LB THEN Fail
    ELSE IF At(t, i + 1) = RB THEN [ok |-> TRUE, v |-> JObj(<<>>), next |-> i + 2]
    ELSE ParseMembers(t, i + 1, <<>>)

ParseValue(t, i) ==
    IF At(t, i).c = "lit" THEN [ok |-> TRUE, v |-> At(t, i).v, next |-> i + 1]
    ELSE IF At(t, i) = LB THEN ParseObject(t, i)
    ELSE Fail

\* "key": value, then a comma and more members or the closing brace; a key
\* given twice keeps its first place and its last value, as a dict does.
ParseMembers(t, i, acc) ==
    IF ~(At(t, i).c = "lit" /\ At(t, i).v.ty = "str" /\ At(t, i + 1) = COLON)
    THEN Fail
    ELSE LET key == At(t, i).v.s
             r == ParseValue(t, i + 2)
         IN  IF ~r.ok THEN Fail
             ELSE LET acc2 == Put(acc, key, r.v)
                  IN  IF At(t, r.next) = COMMA THEN ParseMembers(t, r.next + 1, acc2)
                      ELSE IF At(t, r.next) = RB
                      THEN [ok |-> TRUE, v |-> JObj(acc2), next |-> r.next + 1]
                      ELSE Fail

\* json.loads(json_string): the dict, or JSONDecodeError (text left over
\* after the value is "Extra data").
JsonLoads(json_string) ==
    LET r == ParseObject(json_string, 1)
    IN  IF r.ok /\ r.next = Len(json_string) + 1
        THEN [ok |-> TRUE, d |-> r.v.o]
        ELSE [ok |-> FALSE, d |-> NoResult]

\* The text of a value, as the model writes it (the inverse of json.loads).
RECURSIVE Dumps(_)
RECURSIVE DumpMembers(_)
DumpMembers(d) ==
    IF d = <<>> THEN <<>>
    ELSE <<Lit(JStr(Head(d).k)), COLON>> \o Dumps(Head(d).v)
         \o (IF Len(d) > 1 THEN <<COMMA>> ELSE <<>>) \o DumpMembers(Tail(d))

Dumps(v) ==
    IF v.ty = "obj" THEN <<LB>> \o DumpMembers(v.o) \o <<RB>> ELSE <<Lit(v)>>

(***************************************************************************)
(* The normalisation of the reply, analyze_resume_groq lines 149-195.      *)
(***************************************************************************)
MATCH_SCORE == <<"match_score">>

SCORE_RATIONALE == <<"score_rationale">>

KEY_QUALIFICATIONS_MATCH == <<"key_qualifications_match">>

MISSING_SKILLS_REQUIREMENTS == <<"missing_skills_requirements">>

STRENGTHS == <<"strengths">>

AREAS_FOR_IMPROVEMENT == <<"areas_for_improvement">>

SUGGESTED_RESUME_IMPROVEMENTS == <<"suggested_resume_improvements">>

KEYWORD_ANALYSIS == <<"keyword_analysis">>

MISSING_JD_KEYWORDS == <<"missing_jd_keywords">>

\* The entry of missing_keys that line 166 appends.
NESTED_KEY == <<"keyword_analysis.missing_jd_keywords">>

\* Lines 161-163.
required_keys ==
    <<MATCH_SCORE, SCORE_RATIONALE, KEY_QUALIFICATIONS_MATCH,
      MISSING_SKILLS_REQUIREMENTS, STRENGTHS, AREAS_FOR_IMPROVEMENT,
      SUGGESTED_RESUME_IMPROVEMENTS, KEYWORD_ANALYSIS>>

\* Line 179.
list_keys ==
    {MISSING_SKILLS_REQUIREMENTS, STRENGTHS, AREAS_FOR_IMPROVEMENT,
     SUGGESTED_RESUME_IMPROVEMENTS}

NA == JStr(<<"N/A">>)

EmptyList == JList(<<>>)

\* Python's  key in v  for a one-word key: a dict is asked for the key, a
\* str for the substring, a list for an equal item; anything else raises
\* TypeError (argument is not iterable).
Contains(v, key) ==
    IF v.ty = "obj" THEN (IF Has(v.o, key) THEN "yes" ELSE "no")
    ELSE IF v.ty = "str" THEN (IF key[1] \in {v.s[i] : i \in 1..Len(v.s)} THEN "yes" ELSE "no")
    ELSE IF v.ty = "list" THEN (IF key[1] \in {v.l[i] : i \in 1..Len(v.l)} THEN "yes" ELSE "no")
    ELSE "TypeError"

\* v[key] = item: only a dict takes it; a str or a list raises TypeError.
SetItem(v, key, item) ==
    IF v.ty = "obj" THEN [ok |-> TRUE, v |-> JObj(Put(v.o, key, item))]
    ELSE [ok |-> FALSE, v |-> v]

\* Line 164.
MissingKeys(analysis_json) ==
    SelectSeq(required_keys, LAMBDA key : ~Has(analysis_json, key))

Raised == [ok |-> FALSE, aj |-> NoResult, missing_keys |-> <<>>]

\* Lines 165-168: a keyword_analysis without missing_jd_keywords is noted
\* and, when it is a dict, given an empty list.
NestedCheck(analysis_json, missing_keys) ==
    IF ~Has(analysis_json, KEYWORD_ANALYSIS)
    THEN [ok |-> TRUE, aj |-> analysis_json, missing_keys |-> missing_keys]
    ELSE LET kw == Get(analysis_json, KEYWORD_ANALYSIS)
             c == Contains(kw, MISSING_JD_KEYWORDS)
         IN  IF c = "TypeError" THEN Raised
             ELSE IF c = "yes"
             THEN [ok |-> TRUE, aj |-> analysis_json, missing_keys |-> missing_keys]
             ELSE [ok |-> TRUE,
                   aj |-> IF kw.ty = "obj"
                          THEN Put(analysis_json, KEYWORD_ANALYSIS,
                                   SetItem(kw, MISSING_JD_KEYWORDS, EmptyList).v)
                          ELSE analysis_json,
                   missing_keys |-> Append(missing_keys, NESTED_KEY)]

\* Lines 178-180: the default of a missing top-level key.
DefaultFor(key) ==
    IF key = KEYWORD_ANALYSIS THEN JObj(<<Member(MISSING_JD_KEYWORDS, EmptyList)>>)
    ELSE IF key \in list_keys THEN EmptyList
    ELSE NA

\* Lines 173-180: the loop over missing_keys.
RECURSIVE FillDefaults(_, _)
FillDefaults(analysis_json, keys) ==
    IF keys = <<>> THEN [ok |-> TRUE, aj |-> analysis_json]
    ELSE LET key == Head(keys)
         IN  IF key = NESTED_KEY
             THEN LET aj1 == IF ~Has(analysis_json, KEYWORD_ANALYSIS)
                             THEN Put(analysis_json, KEYWORD_ANALYSIS, JObj(<<>>))
                             ELSE analysis_json
                      kw == Get(aj1, KEYWORD_ANALYSIS)
                      c == Contains(kw, MISSING_JD_KEYWORDS)
                      set == SetItem(kw, MISSING_JD_KEYWORDS, EmptyList)
                  IN  IF c = "TypeError" THEN [ok |-> FALSE, aj |-> NoResult]
                      ELSE IF c = "yes" THEN FillDefaults(aj1, Tail(keys))
                      ELSE IF ~set.ok THEN [ok |-> FALSE, aj |-> NoResult]
                      ELSE FillDefaults(Put(aj1, KEYWORD_ANALYSIS, set.v), Tail(keys))
             ELSE FillDefaults(Put(analysis_json, key, DefaultFor(key)), Tail(keys))

\* isinstance(v, int): a Python bool is an int.
IsInstanceInt(v) == v.ty \in {"int", "bool"}

\* analysis_json.get("match_score")
GetOrNone(d, key) == IF Has(d, key) THEN Get(d, key) ELSE JNull

\* CheckedScore without the type check.
CheckedScoreMut(analysis_json) == analysis_json

\* Lines 182-184.
CheckedScore(analysis_json) ==
    IF ~IsInstanceInt(GetOrNone(analysis_json, MATCH_SCORE))
    THEN Put(analysis_json, MATCH_SCORE, NA)
    ELSE analysis_json

\* Lines 155-158.
OnNoMatch == [result |-> NoResult, msgs |-> {"NoJsonFound"}]

\* Lines 188-191.
OnJsonDecodeError(json_string) == [result |-> NoResult, msgs |-> {"MalformedJson"}]

\* Lines 192-195.
OnProcessingError == [result |-> NoResult, msgs |-> {"ProcessingError"}]

\* Lines 160-186 on the parsed dict.
Reconcile(parsed) ==
    LET n == NestedCheck(parsed, MissingKeys(parsed))
    IN  IF ~n.ok THEN OnProcessingError
        ELSE LET f == IF n.missing_keys # <<>>
                      THEN FillDefaults(n.aj, n.missing_keys)
                      ELSE [ok |-> TRUE, aj |-> n.aj]
             IN  IF ~f.ok THEN OnProcessingError
                 ELSE [result |-> CheckedScore(f.aj),
                       msgs |-> IF n.missing_keys # <<>> THEN {"IncompleteWarning"} ELSE {}]

\* Lines 149-195: the result (a dict or None) and the messages shown.
Normalize(content) ==
    LET json_string == JsonMatch(content)
    IN  IF json_string = <<>> THEN OnNoMatch
        ELSE LET loaded == JsonLoads(json_string)
             IN  IF ~loaded.ok THEN OnJsonDecodeError(json_string)
                 ELSE Reconcile(loaded.d)

(***************************************************************************)
(* The display of the results, main lines 318-385.                         *)
(***************************************************************************)
\* bool(v)
Truth(v) ==
    CASE v.ty \in {"int", "bool", "float"} -> v.n # 0
      [] v.ty = "str" -> v.s # <<>>
      [] v.ty = "list" -> v.l # <<>>
      [] v.ty = "obj" -> v.o # <<>>
      [] OTHER -> FALSE

\* for item in v / ', '.join(v): TypeError unless v can be iterated.
Iterable(v) == v.ty \in {"str", "list", "obj"}

\* Lines 341-344, 356-359, 362-365, 370-373: a section that lists a field.
ListSectionOk(results, key) ==
    LET v == IF Has(results, key) THEN Get(results, key) ELSE EmptyList
    IN  Truth(v) => Iterable(v)

\* Lines 325-330: st.progress takes a float in [0.0, 1.0] only.
ScoreSectionOk(results) ==
    LET score == GetOrNone(results, MATCH_SCORE)
    IN  IsInstanceInt(score) => (score.n >= 0 /\ score.n <= 100)

\* Lines 347-351: kw_analysis.get exists on a dict only.
KeywordSectionOk(results) ==
    LET kw_analysis == IF Has(results, KEYWORD_ANALYSIS)
                       THEN Get(results, KEYWORD_ANALYSIS) ELSE JObj(<<>>)
    IN  /\ kw_analysis.ty = "obj"
        /\ LET missing_kw == IF Has(kw_analysis.o, MISSING_JD_KEYWORDS)
                             THEN Get(kw_analysis.o, MISSING_JD_KEYWORDS)
                             ELSE EmptyList
           IN  Truth(missing_kw) => Iterable(missing_kw)

\* Lines 320-377: "results" when every section is drawn, "fault" when one of
\* them raises and the script run ends there.
RenderResults(results) ==
    IF /\ ScoreSectionOk(results)
       /\ ListSectionOk(results, STRENGTHS)
       /\ KeywordSectionOk(results)
       /\ ListSectionOk(results, MISSING_SKILLS_REQUIREMENTS)
       /\ ListSectionOk(results, AREAS_FOR_IMPROVEMENT)
       /\ ListSectionOk(results, SUGGESTED_RESUME_IMPROVEMENTS)
    THEN "results" ELSE "fault"

\* if st.session_state.analysis_result: (a dict that is not empty)
HasResult(result) == result # NoResult /\ result # <<>>

(***************************************************************************)
(* The inputs of a session: the files a user uploads, the job descriptions *)
(* pasted and the replies of the model.                                    *)
(***************************************************************************)
NoFile == [name |-> "", pdf |-> Pdf("none", <<>>)]

LongA == <<Run(MIN_RESUME_LENGTH)>>

LongB == <<Run(60), SP, Run(MIN_RESUME_LENGTH - 50)>>

ShortText == <<Run(MIN_RESUME_LENGTH - 1)>>

SessionPdfs ==
    {Pdf("ok", <<Page(FALSE, LongA)>>), Pdf("ok", <<Page(FALSE, LongB)>>),
     Pdf("ok", <<Page(FALSE, ShortText)>>), Pdf("ok", <<Page(FALSE, <<>>)>>),
     Pdf("ok", <<Page(FALSE, <<SP>>)>>), Pdf("PdfReadError", <<>>)}

SessionFiles ==
    {NoFile} \cup {[name |-> nm, pdf |-> f] : nm \in {"cv.pdf", "cv2.pdf"}, f \in SessionPdfs}

SessionJds == {<<Run(MIN_JD_LENGTH - 1)>>, <<Run(MIN_JD_LENGTH)>>}

FullReply(score, kw) ==
    <<Member(MATCH_SCORE, score),
      Member(SCORE_RATIONALE, JStr(<<"solid", "fit">>)),
      Member(KEY_QUALIFICATIONS_MATCH, JStr(<<"matched">>)),
      Member(MISSING_SKILLS_REQUIREMENTS, JList(<<"SQL">>)),
      Member(STRENGTHS, JList(<<"Python">>)),
      Member(AREAS_FOR_IMPROVEMENT, JList(<<"metrics">>)),
      Member(SUGGESTED_RESUME_IMPROVEMENTS, JList(<<"quantify">>)),
      Member(KEYWORD_ANALYSIS, kw)>>

GoodKw == JObj(<<Member(MISSING_JD_KEYWORDS, JList(<<"Agile">>))>>)

PartialReply == <<Member(MATCH_SCORE, JInt(82)), Member(STRENGTHS, JList(<<"Python">>))>>

SessionReplies ==
    {Dumps(JObj(FullReply(JInt(82), GoodKw))),
     <<Word>> \o Dumps(JObj(PartialReply)),
     Dumps(JObj(FullReply(JInt(150), GoodKw))),
     Dumps(JObj(FullReply(JInt(82), JStr(<<"missing_jd_keywords", "none">>)))),
     Dumps(JObj(FullReply(JInt(82), JNull))),
     <<LB, Word, RB>>,
     <<Word>>}

(***************************************************************************)
(* The session.  pc is the place of the script run: "load" before the      *)
(* first run, "idle" between runs, and the stages of a submission.         *)
(***************************************************************************)
Stage(s, ok) == [s |-> s, ok |-> ok]

Init ==
    /\ pc = "load"
    /\ client = "unset"
    /\ resume_text = None
    /\ job_description = <<>>
    /\ analysis_result = NoResult
    /\ analysis_requested = FALSE
    /\ last_upload_name = ""
    /\ uploaded_file = NoFile
    /\ job_description_input = <<>>
    /\ response_content = <<>>
    /\ messages = {}
    /\ stages = <<>>
    /\ requests = 0
    /\ rendered = "none"
    /\ prior_result = NoResult

\* Lines 218-228: the first script run makes the client or stops.
PageLoad ==
    /\ pc = "load"
    /\ \E made \in BOOLEAN :
          IF made
          THEN client' = "ok" /\ pc' = "idle" /\ messages' = {}
          ELSE client' = "none" /\ pc' = "stopped" /\ messages' = {"ConfigurationError"}
    /\ UNCHANGED <<session_state, uploaded_file, job_description_input,
                   response_content, stages, requests, rendered, prior_result>>

\* Line 274.
NeedsExtraction(file) == file.name # last_upload_name \/ resume_text = None

\* Lines 270-279, 284-285: the form is submitted with a file (or none) and a
\* job description; a new file clears the result and goes to extraction.
Submit(file, jd) ==
    /\ pc = "idle"
    /\ uploaded_file' = file
    /\ job_description_input' = jd
    /\ response_content' = <<>>
    /\ stages' = <<>>
    /\ requests' = 0
    /\ rendered' = "none"
    /\ prior_result' = analysis_result
    /\ IF file # NoFile /\ NeedsExtraction(file)
       THEN /\ analysis_result' = NoResult
            /\ analysis_requested' = FALSE
            /\ last_upload_name' = file.name
            /\ messages' = {}
            /\ pc' = "extract"
       ELSE /\ messages' = IF file = NoFile /\ ~Truthy(resume_text)
                           THEN {"PleaseUpload"} ELSE {}
            /\ pc' = "validate"
            /\ UNCHANGED <<analysis_result, analysis_requested, last_upload_name>>
    /\ UNCHANGED <<client, resume_text, job_description>>

\* Lines 279-282.
Extract ==
    /\ pc = "extract"
    /\ LET r == extract_text_from_pdf(uploaded_file.pdf)
       IN  /\ resume_text' = r.text
           /\ messages' = messages \cup r.msgs \cup
                          (IF Truthy(r.text) THEN {"ExtractSuccess"} ELSE {"ExtractFailed"})
           /\ stages' = Append(stages, Stage("extract", Truthy(r.text)))
    /\ pc' = "validate"
    /\ UNCHANGED <<client, job_description, analysis_result, analysis_requested,
                   last_upload_name, uploaded_file, job_description_input,
                   response_content, requests, rendered, prior_result>>

\* ValidJd with the minimum left out.
ValidJdMut(jd) == StrLen(jd) >= 0

\* Line 296.
ValidJd(jd) == StrLen(jd) >= MIN_JD_LENGTH

\* Line 297.
ValidResume(text) == text # None /\ StrLen(text) >= MIN_RESUME_LENGTH

\* ClearedResult with the reset left out: the stored result stays.
ClearedResultMut(stored) == stored

\* Line 293: st.session_state.analysis_result = None.
ClearedResult(stored) == NoResult

\* Lines 289-304, 314-315.
Validate ==
    /\ pc = "validate"
    /\ job_description' = job_description_input
    /\ analysis_result' = ClearedResult(analysis_result)
    /\ LET valid_jd == ValidJd(job_description_input)
           valid_resume == ValidResume(resume_text)
       IN  /\ messages' = messages \cup (IF ~valid_resume THEN {"ResumeTooShort"} ELSE {})
                                   \cup (IF ~valid_jd THEN {"JdTooShort"} ELSE {})
           /\ stages' = Append(stages, Stage("validate", valid_resume /\ valid_jd))
           /\ analysis_requested' = (valid_resume /\ valid_jd)
           /\ pc' = IF valid_resume /\ valid_jd THEN "call" ELSE "render"
    /\ UNCHANGED <<client, resume_text, last_upload_name, uploaded_file,
                   job_description_input, response_content, requests, rendered,
                   prior_result>>

\* Lines 89-96: analyze_resume_groq's own checks before it calls.
CallAllowed ==
    /\ client = "ok"
    /\ ~(StrLen(resume_text) < MIN_RESUME_LENGTH \/ StrLen(job_description) < MIN_JD_LENGTH)

\* AfterFailedCall with a retry: the request is sent again.
AfterFailedCallMut == "call"

\* Lines 197-200: an exception of the call ends analyze_resume_groq.
AfterFailedCall == "render"

\* What the provider does with a request: it raises, or it returns a text.
ProviderRaises == << Tok("raise", JNull) >>

\* Lines 307, 86-145, 197-200: analyze_resume_groq up to the reply.  When
\* one of its own checks fails it returns None without a request; else the
\* request is sent, and it raises or gives the reply's text.
CallProvider(outcome) ==
    /\ pc = "call"
    /\ IF ~CallAllowed
       THEN /\ messages' = messages \cup {IF client # "ok" THEN "ClientNotInitialized"
                                          ELSE "ShortInputWarning"}
            /\ pc' = "render"
            /\ UNCHANGED <<response_content, stages, requests>>
       ELSE /\ requests' = requests + 1
            /\ IF outcome = ProviderRaises
               THEN /\ messages' = messages \cup {"ProviderError"}
                    /\ stages' = Append(stages, Stage("call", FALSE))
                    /\ pc' = AfterFailedCall
                    /\ UNCHANGED response_content
               ELSE /\ response_content' = outcome
                    /\ stages' = Append(stages, Stage("call", TRUE))
                    /\ pc' = "normalize"
                    /\ UNCHANGED messages
    /\ UNCHANGED <<client, session_state, uploaded_file, job_description_input,
                   rendered, prior_result>>

\* Lines 149-195 and the assignment of line 307.
NormalizeReply ==
    /\ pc = "normalize"
    /\ LET r == Normalize(response_content)
       IN  /\ analysis_result' = r.result
           /\ messages' = messages \cup r.msgs
           /\ stages' = Append(stages, Stage("normalize", r.result # NoResult))
    /\ pc' = "render"
    /\ UNCHANGED <<client, resume_text, job_description, analysis_requested,
                   last_upload_name, uploaded_file, job_description_input,
                   response_content, requests, rendered, prior_result>>

\* Lines 318-385.
Render ==
    /\ pc = "render"
    /\ IF HasResult(analysis_result)
       THEN rendered' = RenderResults(analysis_result) /\ messages' = messages
       ELSE /\ rendered' = "none"
            /\ messages' = messages \cup
                           (IF analysis_requested THEN {"AnalysisFallback"} ELSE {})
    /\ pc' = "idle"
    /\ UNCHANGED <<client, session_state, uploaded_file, job_description_input,
                   response_content, stages, requests, prior_result>>

Next ==
    \/ PageLoad
    \/ \E file \in SessionFiles, jd \in SessionJds : Submit(file, jd)
    \/ Extract
    \/ Validate
    \/ \E outcome \in {ProviderRaises} \cup SessionReplies : CallProvider(outcome)
    \/ NormalizeReply
    \/ Render

Spec == Init /\ [][Next]_vars

(***************************************************************************)
(* The normaliser on its own: every reply of a bounded family, given to    *)
(* the normalisation step of a run that has reached it.                    *)
(***************************************************************************)
Absent == Val("absent", 0, <<>>, <<>>, <<>>)

\* What a reply may give for each required key, in the order of required_keys.
FieldChoices ==
    << {Absent, JInt(82), JInt(150), JInt(-5), JBool(TRUE), JFloat(75),
        JStr(<<"85">>), JNull},
       {Absent, JStr(<<"solid", "fit">>), JInt(7)},
       {Absent, JStr(<<"matched">>)},
       {Absent, JList(<<"SQL">>)},
       {Absent, JList(<<"Python">>), JStr(<<"Python">>)},
       {Absent, JList(<<"metrics">>)},
       {Absent, JList(<<>>)},
       {Absent, GoodKw, JObj(<<>>), JObj(<<Member(<<"other">>, JInt(1))>>),
        JStr(<<"none">>), JStr(<<"missing_jd_keywords", "none">>), JNull,
        JList(<<"Agile">>)} >>

\* The dict of a choice: the keys whose choice is not Absent, in order.
ObjectOf(f) ==
    SelectSeq([i \in 1..Len(required_keys) |-> Member(required_keys[i], f[i])],
              LAMBDA m : m.v # Absent)

ReplyObjects ==
    {ObjectOf(<<a, b, c, d, e, f, g, h>>) :
        a \in FieldChoices[1], b \in FieldChoices[2], c \in FieldChoices[3],
        d \in FieldChoices[4], e \in FieldChoices[5], f \in FieldChoices[6],
        g \in FieldChoices[7], h \in FieldChoices[8]}

RECURSIVE SeqsUpTo(_, _)
SeqsUpTo(S, n) ==
    IF n = 0 THEN {<<>>}
    ELSE SeqsUpTo(S, n - 1) \cup
         {Append(q, x) : q \in {r \in SeqsUpTo(S, n - 1) : Len(r) = n - 1}, x \in S}

\* The text around the JSON: up to MaxWrap words or stray braces each side.
Wraps == SeqsUpTo({Word, LB, RB}, MaxWrap)

\* A text with one token lost.
Damaged(t) == {SubSeq(t, 1, i - 1) \o SubSeq(t, i + 1, Len(t)) : i \in 1..Len(t)}

FewBodies ==
    LET good == {Dumps(JObj(PartialReply)), Dumps(JObj(<<>>)),
                 Dumps(JObj(<<Member(MATCH_SCORE, JStr(<<"85">>)),
                              Member(KEYWORD_ANALYSIS, JObj(<<>>))>>))}
    IN  good \cup UNION {Damaged(t) : t \in good} \cup {<<>>, <<Word>>, <<COMMA>>}

NormInputs ==
    {pre \o Dumps(JObj(d)) : pre \in {<<>>, <<Word>>}, d \in ReplyObjects}
    \cup {pre \o body \o post : pre \in Wraps, body \in FewBodies, post \in Wraps}

InitNorm ==
    /\ pc = "normalize"
    /\ client = "ok"
    /\ resume_text = LongA
    /\ job_description = <<Run(MIN_JD_LENGTH)>>
    /\ analysis_result = NoResult
    /\ analysis_requested = TRUE
    /\ last_upload_name = "cv.pdf"
    /\ uploaded_file = [name |-> "cv.pdf", pdf |-> Pdf("ok", <<Page(FALSE, LongA)>>)]
    /\ job_description_input = <<Run(MIN_JD_LENGTH)>>
    /\ response_content \in NormInputs
    /\ messages = {"ExtractSuccess"}
    /\ stages = <<Stage("extract", TRUE), Stage("validate", TRUE), Stage("call", TRUE)>>
    /\ requests = 1
    /\ rendered = "none"
    /\ prior_result = NoResult

NextNorm == NormalizeReply \/ Render

SpecNorm == InitNorm /\ [][NextNorm]_vars

(***************************************************************************)
(* The extractor on its own: every PDF of up to MaxPages pages, each page  *)
(* giving up to MaxPageLen characters or raising.                          *)
(***************************************************************************)
PageTexts == SeqsUpTo({Run(1), SP, NL}, MaxPageLen)

Pages == {Page(FALSE, t) : t \in PageTexts} \cup {Page(TRUE, <<>>)}

Pdfs ==
    {Pdf("ok", ps) : ps \in SeqsUpTo(Pages, MaxPages)}
    \cup {Pdf("PdfReadError", <<>>), Pdf("Exception", <<>>)}

InitPdf ==
    /\ pc = "extract"
    /\ client = "ok"
    /\ resume_text = None
    /\ job_description = <<>>
    /\ analysis_result = NoResult
    /\ analysis_requested = FALSE
    /\ last_upload_name = "cv.pdf"
    /\ uploaded_file \in {[name |-> "cv.pdf", pdf |-> f] : f \in Pdfs}
    /\ job_description_input = <<Run(MIN_JD_LENGTH)>>
    /\ response_content = <<>>
    /\ messages = {}
    /\ stages = <<>>
    /\ requests = 0
    /\ rendered = "none"
    /\ prior_result = NoResult

NextPdf == Extract \/ Validate \/ Render

SpecPdf == InitPdf /\ [][NextPdf]_vars

(***************************************************************************)
(* Properties.                                                             *)
(***************************************************************************)
\* The stage s was run in this submission (and went well).
Ran(s) == \E i \in 1..Len(stages) : stages[i].s = s

StageOk(s) == \E i \in 1..Len(stages) : stages[i] = Stage(s, TRUE)

\* The normalisation step has just given its result for response_content.
AfterNormalize == stages # <<>> /\ stages[Len(stages)].s = "normalize"

\* The reply's text from its first "{" to its last "}", <<>> when there is
\* no "{" with a "}" after it.
Candidate(raw) ==
    LET lbs == {i \in 1..Len(raw) : raw[i] = LB}
        rbs == {j \in 1..Len(raw) : raw[j] = RB}
    IN  IF \E i \in lbs, j \in rbs : i < j
        THEN SubSeq(raw, CHOOSE i \in lbs : \A k \in lbs : i <= k,
                         CHOOSE j \in rbs : \A k \in rbs : k <= j)
        ELSE <<>>

ParsesAsObject(raw) == Candidate(raw) # <<>> /\ JsonLoads(Candidate(raw)).ok

\* The dict the reply parses to.
ParsedReply == JsonLoads(Candidate(response_content)).d

Keys(d) == {d[i].k : i \in 1..Len(d)}

text_keys == {SCORE_RATIONALE, KEY_QUALIFICATIONS_MATCH}

\* The eight fields, each of the type the schema gives it.
SchemaOk(d) ==
    /\ \A i \in 1..Len(required_keys) : Has(d, required_keys[i])
    /\ Get(d, MATCH_SCORE).ty = "int" \/ Get(d, MATCH_SCORE) = NA
    /\ \A k \in text_keys : Get(d, k).ty = "str"
    /\ \A k \in list_keys : Get(d, k).ty = "list"
    /\ Get(d, KEYWORD_ANALYSIS).ty = "obj"
    /\ Has(Get(d, KEYWORD_ANALYSIS).o, MISSING_JD_KEYWORDS)
    /\ Get(Get(d, KEYWORD_ANALYSIS).o, MISSING_JD_KEYWORDS).ty = "list"

\* C1: for every reply whose text from the first "{" to the last "}" parses
\* as a JSON object, the normaliser returns a result that holds all eight
\* required fields, each of its schema type, whatever the reply omitted or
\* mistyped.
C1_AllFieldsTyped ==
    (AfterNormalize /\ ParsesAsObject(response_content))
        => (HasResult(analysis_result) /\ SchemaOk(analysis_result))

\* A keyword_analysis the normaliser cannot repair: present, not an object,
\* and not a string or list that holds "missing_jd_keywords".
KeywordUnrepairable(d) ==
    /\ Has(d, KEYWORD_ANALYSIS)
    /\ Get(d, KEYWORD_ANALYSIS).ty # "obj"
    /\ Contains(Get(d, KEYWORD_ANALYSIS), MISSING_JD_KEYWORDS) # "yes"

\* The value a field of the reply has in the result when it passes through:
\* itself, but for a keyword_analysis object without missing_jd_keywords,
\* which gains an empty one.
PassedThrough(d, k) ==
    LET v == Get(d, k)
    IN  IF k = KEYWORD_ANALYSIS /\ v.ty = "obj" /\ ~Has(v.o, MISSING_JD_KEYWORDS)
        THEN JObj(Append(v.o, Member(MISSING_JD_KEYWORDS, EmptyList)))
        ELSE v

ClaimedDefault(k) ==
    IF k = KEYWORD_ANALYSIS THEN JObj(<<Member(MISSING_JD_KEYWORDS, EmptyList)>>)
    ELSE IF k \in list_keys THEN EmptyList
    ELSE NA

\* C3: every required field absent from the parsed reply is given its
\* default (an empty list, "N/A", a keyword_analysis holding an empty
\* missing_jd_keywords), a keyword_analysis object without
\* missing_jd_keywords gains an empty one, and every field that was present
\* keeps its value (match_score when it is an integer, as C2 has it).
C3_DefaultsForAbsentFields ==
    (AfterNormalize /\ ParsesAsObject(response_content))
        => /\ HasResult(analysis_result)
           /\ \A i \in 1..Len(required_keys) :
                 LET k == required_keys[i]
                 IN  /\ Has(analysis_result, k)
                     /\ ~Has(ParsedReply, k) => Get(analysis_result, k) = ClaimedDefault(k)
           /\ \A k \in Keys(ParsedReply) :
                 (k = MATCH_SCORE /\ ~IsInstanceInt(Get(ParsedReply, k)))
                 \/ (Has(analysis_result, k)
                     /\ Get(analysis_result, k) = PassedThrough(ParsedReply, k))

\* C4: a reply with no "{" that has a "}" after it gives no result and the
\* message of NoJsonFound; a reply whose text from the first "{" to the last
\* "}" is not valid JSON gives no result and the message of MalformedJson;
\* either way the step ends and the run goes on to the display.
C4_NoResultWithoutJson ==
    AfterNormalize
        => /\ pc \in {"render", "idle"}
           /\ Candidate(response_content) = <<>>
                 => (analysis_result = NoResult /\ "NoJsonFound" \in messages)
           /\ (Candidate(response_content) # <<>> /\ ~ParsesAsObject(response_content))
                 => (analysis_result = NoResult /\ "MalformedJson" \in messages)

\* A reply with a valid object followed by a stray "}" has been normalised
\* to no result.
C4_Witness ==
    /\ AfterNormalize
    /\ Candidate(response_content) # <<>>
    /\ ~ParsesAsObject(response_content)
    /\ Len(response_content) > 2
    /\ response_content[Len(response_content)] = RB
    /\ ParsesAsObject(SubSeq(response_content, 1, Len(response_content) - 1))
    /\ analysis_result = NoResult
    /\ "MalformedJson" \in messages

\* The inputs of this submission fail the length checks.
JdShort == StrLen(job_description_input) < MIN_JD_LENGTH

ResumeShort == resume_text = None \/ StrLen(resume_text) < MIN_RESUME_LENGTH

\* C5: once a submission has validated its inputs, a job description below
\* MIN_JD_LENGTH (or a résumé text missing or below MIN_RESUME_LENGTH) has
\* its validation error on the page, no request has been sent and the
\* stored result is empty, to the end of the submission.
C5_ShortInputBlocksCall ==
    (Ran("validate") /\ (JdShort \/ ResumeShort))
        => /\ JdShort => "JdTooShort" \in messages
           /\ ResumeShort => "ResumeTooShort" \in messages
           /\ requests = 0
           /\ ~Ran("call")
           /\ analysis_result = NoResult

\* A submission with a good résumé and a job description one character
\* short has ended, after one that had stored a result.
C5_Witness ==
    /\ pc = "idle"
    /\ Ran("validate")
    /\ JdShort
    /\ ~ResumeShort
    /\ HasResult(prior_result)
    /\ "JdTooShort" \in messages
    /\ requests = 0
    /\ analysis_result = NoResult

\* C6: a submission empties the stored result before its run is attempted,
\* and the result stored when it is displayed and afterwards is empty or
\* the one this submission's normalisation gave.
C6_NoStaleResult ==
    /\ pc \in {"call", "normalize"} => analysis_result = NoResult
    /\ (pc \in {"render", "idle"} /\ HasResult(analysis_result))
          => (AfterNormalize /\ stages[Len(stages)].ok
              /\ analysis_result = Normalize(response_content).result)

\* A submission made while a result was stored has ended with none.
C6_Witness ==
    /\ pc = "idle"
    /\ Ran("validate")
    /\ HasResult(prior_result)
    /\ uploaded_file.name = last_upload_name
    /\ ~Ran("extract")
    /\ analysis_result = NoResult

\* The submission has a résumé text from extraction: this submission's, or
\* the one kept from the file's first submission.
ExtractionOk == IF Ran("extract") THEN StageOk("extract") ELSE Truthy(resume_text)

AllStagesOk ==
    ExtractionOk /\ StageOk("validate") /\ StageOk("call") /\ StageOk("normalize")

Succeeded == HasResult(analysis_result) /\ rendered = "results"

ErrorKinds ==
    {"ExtractionError", "ExtractionUnexpected", "ExtractionEmpty", "ExtractFailed",
     "PleaseUpload", "ResumeTooShort", "JdTooShort", "ProviderError", "NoJsonFound",
     "MalformedJson", "ProcessingError", "AnalysisFallback"}

\* C7: when a submission has ended, a result is stored and rendered exactly
\* when extraction, validation, the call and normalisation all went well;
\* otherwise no result is stored and an error message is on the page.
C7_SucceededIffAllStagesOk ==
    (pc = "idle" /\ Ran("validate"))
        => /\ Succeeded <=> AllStagesOk
           /\ ~AllStagesOk => (~HasResult(analysis_result) /\ messages \cap ErrorKinds # {})

StageRank(s) ==
    CASE s = "extract" -> 1 [] s = "validate" -> 2 [] s = "call" -> 3 [] s = "normalize" -> 4

\* C8: the stages of a submission run in the order extraction, validation,
\* call, normalisation, each at most once; a call or a normalisation that
\* fails is the last stage run, and at most one request is sent.
C8_OneRequestInOrder ==
    /\ requests <= 1
    /\ \A i, j \in 1..Len(stages) : i < j => StageRank(stages[i].s) < StageRank(stages[j].s)
    /\ \A i \in 1..Len(stages) :
          (stages[i].s \in {"call", "normalize"} /\ ~stages[i].ok) => i = Len(stages)
    /\ requests = Cardinality({i \in 1..Len(stages) : stages[i].s = "call"})

\* A submission whose request raised has ended: one request, no retry.
C8_Witness ==
    /\ pc = "idle"
    /\ stages = <<Stage("extract", TRUE), Stage("validate", TRUE), Stage("call", FALSE)>>
    /\ requests = 1
    /\ "ProviderError" \in messages

\* C9: extract_text_from_pdf never gives an empty string: it gives None
\* with the message of one failure (ExtractionEmpty when the pages hold no
\* usable text, ExtractionError when the PDF cannot be read), or a text that
\* is not empty after the blank lines are collapsed and the ends trimmed.
C9_NeverEmptyText ==
    (Ran("extract") /\ pc = "validate")
        => /\ resume_text # <<>>
           /\ resume_text = None
                 => Cardinality(messages \cap {"ExtractionEmpty", "ExtractionError",
                                               "ExtractionUnexpected"}) = 1

\* C10: the match_score of every result the normaliser returns is an
\* integer from 0 to 100 or the sentinel.
C10_ScoreInRangeOrSentinel ==
    (AfterNormalize /\ HasResult(analysis_result))
        => LET score == Get(analysis_result, MATCH_SCORE)
           IN  score = NA \/ (score.ty = "int" /\ score.n >= 0 /\ score.n <= 100)


\* Lines 307-311, 105: the résumé text analyze_resume_groq is given and
\* puts in the prompt of the request.
SentResumeText == resume_text

\* C11: whenever a submission reaches the completion call, the résumé text
\* sent is the text extracted from the PDF attached to that same submission.
C11_SentTextIsOfThisUpload ==
    Ran("call")
        => /\ uploaded_file # NoFile
           /\ SentResumeText = extract_text_from_pdf(uploaded_file.pdf).text

====
